---- MODULE Spec2Model ----
\* Model of src/src/handlers/member_events.py: MemberEventHandler, the
\* GUILD_MEMBER_ADD handler.  Each invocation of handle_guild_member_add is an
\* asyncio task; the code between two awaits is one atomic step, and the awaits
\* (config lookup, fetch_channel, channel.send, asyncio.sleep) are the points at
\* which invocations interleave.
EXTENDS Integers, Sequences, FiniteSets, TLC

\* ------------------------------------------------------------------ bounds
NumTasks == 2          \* invocations of handle_guild_member_add in flight
MaxRetryAfter == 2     \* retry_after values carried by errors: 1..MaxRetryAfter

DefaultRetryAfter == 5 \* getattr(e, 'retry_after', 5.0)

Tasks == 1 .. NumTasks

\* ------------------------------------------------------------------ values
Absent == "<absent>"   \* a key that is not in a dict
NoneVal == "<None>"    \* Python None
NoClient == "<None>"   \* self._discord_client = None
Clients == {"client1"}
Guilds == {"G1"}
UserIds == {"", "U1", "U2"}
Usernames == {"new_user"}
ChannelIds == {"555", "general"}   \* what get_welcome_channel may return
Numeric == {"555"}                 \* the ids int(channel_id) accepts

\* event_data['user']: a dict (keys may be missing), None, the string
\* "id username" (a non-mapping in which both field names are found), or no
\* 'user' key at all.
UserDicts == [kind : {"dict"}, id : UserIds \cup {Absent},
              username : Usernames \cup {Absent}]
NoFields(k) == [kind |-> k, id |-> Absent, username |-> Absent]
UserValues == UserDicts \cup {NoFields("absent"), NoFields("none"), NoFields("str")}

\* event_data: a dict, None, or the list ['guild_id', 'user'].
DictEvents == [kind : {"dict"}, guild_id : Guilds \cup {Absent}, user : UserValues]
NonMappingEvents ==
    { [kind |-> k, guild_id |-> Absent, user |-> NoFields("absent")] :
        k \in {"none", "list"} }
Events == DictEvents \cup NonMappingEvents
NoEvent == [kind |-> "none", guild_id |-> Absent, user |-> NoFields("absent")]

\* str(e) of an exception, as the sequence of its words.  "rate limit" and
\* "permission" are matched after lower(), "429" and "403" as they stand.
Lower(w) ==
    CASE w = "Rate Limit" -> "rate limit"
      [] w = "Permission" -> "permission"
      [] OTHER -> w
Contains(msg, w) == \E i \in 1 .. Len(msg) : msg[i] = w
ContainsLower(msg, w) == \E i \in 1 .. Len(msg) : Lower(msg[i]) = w

\* What an awaited call can produce: class "ok", or an exception of the class
\* the remote side means by it, with its text and its retry_after attribute.
Result(c, m, has, ra) ==
    [class |-> c, msg |-> m, has_retry_after |-> has, retry_after |-> ra]
Ok == Result("ok", <<>>, FALSE, 0)
RateLimitErrors ==
    { Result("rate_limit", m, TRUE, d) :
        m \in {<<"Rate Limit", "exceeded">>, <<>>}, d \in 1 .. MaxRetryAfter }
    \cup { Result("rate_limit", <<"429", "Too Many Requests">>, FALSE, 0) }
PermissionErrors ==
    { Result("permission", m, FALSE, 0) :
        m \in {<<"Missing", "Permission">>, <<"403", "Forbidden">>, <<>>,
               <<"403", "Forbidden", "Rate Limit">>} }
TransientErrors == { Result("transient", <<"503", "Service Unavailable">>, FALSE, 0) }
OtherErrors == { Result("other", <<"Discord API error">>, FALSE, 0) }
SendErrors == RateLimitErrors \cup PermissionErrors \cup TransientErrors \cup OtherErrors
ClientNotInitialized == Result("runtime", <<"Discord client not initialized">>, FALSE, 0)
TypeError == Result("type_error", <<"TypeError">>, FALSE, 0)
AttributeError == Result("attribute_error", <<"AttributeError">>, FALSE, 0)

VARIABLES
    client,     \* self._discord_client
    pc,         \* where each invocation is
    ev,         \* event_data of each invocation
    chan,       \* welcome_channel_id of each invocation
    via,        \* the client each invocation's fetch_channel went through
    lookres,    \* what get_welcome_channel answered this invocation
    fetchres,   \* what fetch_channel answered this invocation
    plan,       \* what channel.send answers to this invocation, attempt by attempt
    dupres,     \* what _is_duplicate_event answered this invocation
    lookarg,    \* the guild_id get_welcome_channel was called with
    budget,     \* the remote side's remaining call budget for the channel
    dupchecks,  \* calls of _is_duplicate_event
    lookups,    \* calls of config_service.get_welcome_channel
    fetches,    \* calls of fetch_channel
    attempts,   \* calls of channel.send
    sent,       \* messages channel.send accepted
    slept,      \* durations passed to asyncio.sleep
    log         \* calls of the logger

vars == <<client, pc, ev, chan, via, lookres, fetchres, plan, dupres, lookarg,
          budget, dupchecks, lookups, fetches, attempts, sent, slept, log>>

\* ------------------------------------------------------- pure functions
\* `field in event_data` for the two top-level fields (line 81).
HasField(e, f) ==
    CASE e.kind = "dict" -> (IF f = "guild_id" THEN e.guild_id # Absent
                                               ELSE e.user.kind # "absent")
      [] e.kind = "list" -> TRUE
      [] OTHER -> FALSE
\* `field in user_data` for the two user fields (line 87).
UserHasField(u, f) ==
    CASE u.kind = "dict" -> (IF f = "id" THEN u.id # Absent ELSE u.username # Absent)
      [] u.kind = "str" -> TRUE
      [] OTHER -> FALSE

\* _validate_event_data without the check of 'username'.
ValidateEventDataNoUsername(e) ==
    IF e.kind = "none" THEN "TypeError"
    ELSE IF ~HasField(e, "guild_id") \/ ~HasField(e, "user") THEN "reject"
    ELSE IF e.kind # "dict" THEN "AttributeError"
    ELSE IF e.user.kind = "none" THEN "TypeError"
    ELSE IF ~UserHasField(e.user, "id") THEN "reject"
    ELSE "accept"

\* _validate_event_data: "accept" (True), "reject" (False), or the exception
\* the membership test or .get raises on a value that is not a mapping.
ValidateEventData(e) ==
    IF e.kind = "none" THEN "TypeError"
    ELSE IF ~HasField(e, "guild_id") \/ ~HasField(e, "user") THEN "reject"
    ELSE IF e.kind # "dict" THEN "AttributeError"
    ELSE IF e.user.kind = "none" THEN "TypeError"
    ELSE IF ~UserHasField(e.user, "id") \/ ~UserHasField(e.user, "username")
         THEN "reject"
    ELSE "accept"

\* _is_duplicate_event: the stub.
IsDuplicateEvent(e) == FALSE

\* event_data.get('guild_id', 'unknown') of the handler's except clause.
GuildOrUnknown(e) == IF e.guild_id = Absent THEN "unknown" ELSE e.guild_id

\* The handler without its `is None` test.
NoWelcomeChannelNever(c) == FALSE

\* `welcome_channel_id is None` (line 54).
NoWelcomeChannel(c) == c = NoneVal

\* The branch the except clause of _send_welcome_message takes for str(e).
SendExceptBranch(x) ==
    IF ContainsLower(x.msg, "rate limit") \/ Contains(x.msg, "429") THEN "rate_limit"
    ELSE IF ContainsLower(x.msg, "permission") \/ Contains(x.msg, "403")
         THEN "permission"
    ELSE "other"

\* getattr(e, 'retry_after', 5.0)
RetryAfter(x) == IF x.has_retry_after THEN x.retry_after ELSE DefaultRetryAfter

\* _get_channel without its try/except: the exception of fetch_channel leaves it.
GetChannelReraises(c, r) ==
    IF r.class = "ok" THEN [raised |-> FALSE, logged |-> FALSE, channel |-> c]
    ELSE IF r.class = "none" THEN [raised |-> FALSE, logged |-> FALSE, channel |-> NoneVal]
    ELSE [raised |-> TRUE, logged |-> FALSE, channel |-> NoneVal]

\* _get_channel once fetch_channel has answered r (or int() has failed):
\* an exception is logged and None returned.
GetChannel(c, r) ==
    IF r.class = "ok" THEN [raised |-> FALSE, logged |-> FALSE, channel |-> c]
    ELSE IF r.class = "none" THEN [raised |-> FALSE, logged |-> FALSE, channel |-> NoneVal]
    ELSE [raised |-> FALSE, logged |-> TRUE, channel |-> NoneVal]

\* ----------------------------------------------------------------- logger
Log(level, text, guild, user, channel) ==
    [level |-> level, text |-> text, guild |-> guild, user |-> user,
     channel |-> channel]
NoArg == "-"   \* a field the message does not carry

\* ------------------------------------------ handle_guild_member_add, pieces
\* Each piece gives the invocation's next position and its log.

\* `except Exception as e` of the handler (lines 63-64): event_data.get is
\* itself a call on event_data, and raises out of the handler when event_data
\* has no .get.
HandlerExcept(e, lg) ==
    IF e.kind = "dict"
    THEN [pc |-> "done", slept |-> <<>>,
          log |-> Append(lg, Log("error", "Failed to process member join",
                                 GuildOrUnknown(e), NoArg, NoArg))]
    ELSE [pc |-> "raised", slept |-> <<>>, log |-> lg]

\* Line 61, reached whenever _send_welcome_message returns normally.
AfterSendWelcome(e, lg) ==
    IF e.user.kind # "dict"
    THEN HandlerExcept(e, lg)      \* user['id'] on a string: TypeError
    ELSE [pc |-> "done", slept |-> <<>>,
          log |-> Append(lg, Log("info", "Welcome message sent for user",
                                 e.guild_id, e.user.id, NoArg))]

\* `except Exception as e` of _send_welcome_message (lines 130-143).
SendExcept(e, c, x, lg) ==
    CASE SendExceptBranch(x) = "rate_limit" ->
           [pc |-> "sleep", slept |-> <<RetryAfter(x)>>,
            log |-> Append(lg, Log("warning", "Rate limited, retrying after",
                                   NoArg, NoArg, NoArg))]
      [] SendExceptBranch(x) = "permission" ->
           AfterSendWelcome(e, Append(lg, Log("error", "Permission denied to send message in channel",
                                              NoArg, NoArg, c)))
      [] OTHER ->
           HandlerExcept(e, Append(lg, Log("error", "Failed to send welcome message",
                                           NoArg, NoArg, NoArg)))

\* Lines 115-118 once _get_channel has returned g: no channel is reported and
\* _send_welcome_message returns.
ChannelNotFound(e, c, g, lg) ==
    LET l1 == IF g.logged
              THEN Append(lg, Log("error", "Failed to fetch channel", NoArg, NoArg, c))
              ELSE lg
    IN  AfterSendWelcome(e, Append(l1, Log("error", "Welcome channel not found",
                                           NoArg, NoArg, c)))

FetchedNone == Result("none", <<>>, FALSE, 0)
NotFoundError == Result("not_found", <<"Unknown Channel">>, FALSE, 0)
ValueError == Result("value_error", <<"invalid literal for int()">>, FALSE, 0)
FetchResults == {Ok, FetchedNone, NotFoundError}

Raise == "<raise>"
LookupResults == ChannelIds \cup {NoneVal, Raise}

\* What channel.send answers, attempt by attempt.
SendPlans ==
    { <<r>> : r \in {Ok} \cup SendErrors }
    \cup { <<t, t, Ok>> : t \in TransientErrors }
    \cup { <<Result("rate_limit", <<"Rate Limit", "exceeded">>, TRUE, 1), Ok>> }
NoPlan == <<>>
Pending == "<pending>"
NoResult == Result("pending", <<>>, FALSE, 0)

\* A welcome message that names the user instead of mentioning the id.
MessageWithUsername(c, e) == [channel |-> c, mention |-> e.user.username]

\* The message of lines 120-126: sent to the channel fetched for id c, its
\* content mentioning <@user['id']>.
Message(c, e) == [channel |-> c, mention |-> e.user.id]

\* A time.sleep in place of `await asyncio.sleep`: nothing else runs on the
\* event loop while an invocation waits.
LoopBlocked(t) == \A u \in Tasks \ {t} : pc[u] # "sleep"

\* `await asyncio.sleep(retry_after)` (line 135) gives the event loop back: an
\* invocation may take its next step whatever the others are waiting for, and
\* the class takes no lock.
LoopFree(t) == TRUE

\* ------------------------------------------------------------------ state
Init ==
    /\ client = NoClient                        \* __init__, line 24
    /\ pc = [t \in Tasks |-> "idle"]
    /\ ev = [t \in Tasks |-> NoEvent]
    /\ chan = [t \in Tasks |-> NoneVal]
    /\ via = [t \in Tasks |-> NoClient]
    /\ lookres = [t \in Tasks |-> Pending]
    /\ fetchres = [t \in Tasks |-> NoResult]
    /\ plan = [t \in Tasks |-> NoPlan]
    /\ dupres = [t \in Tasks |-> Pending]
    /\ lookarg = [t \in Tasks |-> Pending]
    /\ budget = 0
    /\ dupchecks = [t \in Tasks |-> 0]
    /\ lookups = [t \in Tasks |-> 0]
    /\ fetches = [t \in Tasks |-> 0]
    /\ attempts = [t \in Tasks |-> 0]
    /\ sent = [t \in Tasks |-> <<>>]
    /\ slept = [t \in Tasks |-> <<>>]
    /\ log = [t \in Tasks |-> <<>>]

\* The invocation moves to r.pc with r.log as its log, having called
\* asyncio.sleep with the durations r.slept.
Continue(t, r) ==
    /\ pc' = [pc EXCEPT ![t] = r.pc]
    /\ log' = [log EXCEPT ![t] = r.log]
    /\ slept' = [slept EXCEPT ![t] = slept[t] \o r.slept]

\* set_discord_client(c)
SetDiscordClient(c) ==
    /\ client' = c
    /\ UNCHANGED <<pc, ev, chan, via, lookres, fetchres, plan, dupres, lookarg,
                   budget, dupchecks, lookups, fetches, attempts, sent, slept, log>>

\* The handler without the `return` of its duplicate branch.
StopOnDuplicateNever(d) == FALSE

\* `if self._is_duplicate_event(event_data):` (line 47), d being the answer.
StopOnDuplicate(d) == d

\* handle_guild_member_add(e) up to its first await (lines 37-52), with d the
\* answer of self._is_duplicate_event(e).
HandleGuildMemberAdd(t, e, d) ==
    /\ pc[t] = "idle"
    /\ LoopFree(t)
    /\ ev' = [ev EXCEPT ![t] = e]
    /\ LET v == ValidateEventData(e) IN
       CASE v = "accept" /\ ~StopOnDuplicate(d) ->
              /\ dupchecks' = [dupchecks EXCEPT ![t] = @ + 1]
              /\ dupres' = [dupres EXCEPT ![t] = IF d THEN "duplicate" ELSE "new"]
              /\ lookups' = [lookups EXCEPT ![t] = @ + 1]
              /\ lookarg' = [lookarg EXCEPT ![t] = e.guild_id]
              /\ pc' = [pc EXCEPT ![t] = "lookup"]
              /\ UNCHANGED <<log, slept>>
         [] v = "accept" /\ StopOnDuplicate(d) ->
              /\ dupchecks' = [dupchecks EXCEPT ![t] = @ + 1]
              /\ dupres' = [dupres EXCEPT ![t] = IF d THEN "duplicate" ELSE "new"]
              /\ UNCHANGED <<lookups, lookarg>>
              /\ Continue(t, IF e.user.kind # "dict"
                             THEN HandlerExcept(e, log[t])
                             ELSE [pc |-> "done", slept |-> <<>>,
                                   log |-> Append(log[t],
                                       Log("info", "Duplicate member join event",
                                           e.guild_id, e.user.id, NoArg))])
         [] v = "reject" ->
              /\ UNCHANGED <<dupchecks, dupres, lookups, lookarg>>
              /\ Continue(t, [pc |-> "done", slept |-> <<>>,
                              log |-> Append(log[t],
                                  Log("error", "Invalid event data received",
                                      NoArg, NoArg, NoArg))])
         [] OTHER ->
              /\ UNCHANGED <<dupchecks, dupres, lookups, lookarg>>
              /\ Continue(t, HandlerExcept(e, log[t]))
    /\ UNCHANGED <<client, chan, via, lookres, fetchres, plan, budget, fetches,
                   attempts, sent>>

\* handle_guild_member_add(e) as the class stands.
Start(t, e) == HandleGuildMemberAdd(t, e, IsDuplicateEvent(e))

\* handle_guild_member_add(e) with _is_duplicate_event replaced by a stand-in
\* that answers d, as test_duplicate_event_handling does.
StartPatched(t, e, d) == HandleGuildMemberAdd(t, e, d)

\* get_welcome_channel answers r; lines 52-59 and _send_welcome_message and
\* _get_channel up to the await of fetch_channel (lines 114-115, 155-159).
Lookup(t, r) ==
    /\ pc[t] = "lookup"
    /\ LoopFree(t)
    /\ lookres' = [lookres EXCEPT ![t] = r]
    /\ LET e == ev[t] IN
       CASE r = Raise ->
              /\ Continue(t, HandlerExcept(e, log[t]))
              /\ UNCHANGED <<chan, via, fetches>>
         [] r # Raise /\ NoWelcomeChannel(r) ->
              /\ Continue(t, [pc |-> "done", slept |-> <<>>,
                              log |-> Append(log[t],
                                  Log("warning", "No welcome channel configured for guild",
                                      e.guild_id, NoArg, NoArg))])
              /\ UNCHANGED <<chan, via, fetches>>
         [] OTHER ->
              /\ chan' = [chan EXCEPT ![t] = r]
              /\ IF client = NoClient
                 THEN /\ Continue(t, SendExcept(e, r, ClientNotInitialized, log[t]))
                      /\ UNCHANGED <<via, fetches>>
                 ELSE IF r \notin Numeric
                 THEN /\ Continue(t, ChannelNotFound(e, r, GetChannel(r, ValueError), log[t]))
                      /\ UNCHANGED <<via, fetches>>
                 ELSE /\ via' = [via EXCEPT ![t] = client]
                      /\ fetches' = [fetches EXCEPT ![t] = @ + 1]
                      /\ pc' = [pc EXCEPT ![t] = "fetch"]
                      /\ UNCHANGED <<log, slept>>
    /\ UNCHANGED <<client, ev, fetchres, plan, dupres, lookarg, budget, dupchecks,
                   lookups, attempts, sent>>

\* fetch_channel answers r; lines 116-126 up to the await of channel.send.
Fetch(t, r) ==
    /\ pc[t] = "fetch"
    /\ LoopFree(t)
    /\ fetchres' = [fetchres EXCEPT ![t] = r]
    /\ LET e == ev[t]
           g == GetChannel(chan[t], r)
       IN
       IF g.raised
       THEN /\ Continue(t, SendExcept(e, chan[t], r, log[t]))
            /\ UNCHANGED attempts
       ELSE IF g.channel = NoneVal
       THEN /\ Continue(t, ChannelNotFound(e, chan[t], g, log[t]))
            /\ UNCHANGED attempts
       ELSE IF e.user.kind # "dict"
       THEN /\ Continue(t, SendExcept(e, chan[t], TypeError, log[t]))   \* user['id']
            /\ UNCHANGED attempts
       ELSE /\ attempts' = [attempts EXCEPT ![t] = @ + 1]
            /\ pc' = [pc EXCEPT ![t] = "send"]
            /\ UNCHANGED <<log, slept>>
    /\ UNCHANGED <<client, ev, chan, via, lookres, plan, dupres, lookarg, budget,
                   dupchecks, lookups, fetches, sent>>

\* channel.send answers as plan p says; lines 126-143.
SendAnswers(t, p) ==
    /\ pc[t] = "send"
    /\ LoopFree(t)
    /\ plan' = [plan EXCEPT ![t] = p]
    /\ LET e == ev[t]
           r == p[attempts[t]]
       IN
       IF r.class = "ok"
       THEN /\ sent' = [sent EXCEPT ![t] = Append(@, Message(chan[t], e))]
            /\ Continue(t, AfterSendWelcome(e, Append(log[t],
                   Log("info", "Welcome message sent to channel",
                       NoArg, e.user.id, chan[t]))))
       ELSE /\ Continue(t, SendExcept(e, chan[t], r, log[t]))
            /\ UNCHANGED sent
    /\ UNCHANGED <<client, ev, chan, via, lookres, fetchres, dupres, lookarg,
                   dupchecks, lookups, fetches, attempts>>

\* channel.send answered by a remote side of any behaviour.
Send(t, p) == SendAnswers(t, p) /\ UNCHANGED budget

\* channel.send answered by a remote side that keeps a call budget for the
\* channel: a call is accepted while budget is left, and rejected with a
\* rate-limit signal once it is used up.
Exhausted == Result("rate_limit", <<"429", "Rate Limit">>, TRUE, 1)
SendBudget(t) ==
    IF budget > 0
    THEN SendAnswers(t, <<Ok>>) /\ budget' = budget - 1
    ELSE SendAnswers(t, <<Exhausted>>) /\ UNCHANGED budget

\* asyncio.sleep(retry_after) is over; lines 136-137, then line 61.
Sleep(t) ==
    /\ pc[t] = "sleep"
    /\ LoopFree(t)
    /\ Continue(t, AfterSendWelcome(ev[t], log[t]))
    /\ UNCHANGED <<client, ev, chan, via, lookres, fetchres, plan, dupres, lookarg,
                   budget, dupchecks, lookups, fetches, attempts, sent>>

Next ==
    \/ \E c \in Clients : SetDiscordClient(c)
    \/ \E t \in Tasks, e \in Events : Start(t, e)
    \/ \E t \in Tasks, r \in LookupResults : Lookup(t, r)
    \/ \E t \in Tasks, r \in FetchResults : Fetch(t, r)
    \/ \E t \in Tasks, p \in SendPlans : Send(t, p)
    \/ \E t \in Tasks : Sleep(t)

Spec == Init /\ [][Next]_vars

\* The handler with _is_duplicate_event replaced by a stand-in.
NextPatched ==
    \/ \E c \in Clients : SetDiscordClient(c)
    \/ \E t \in Tasks, e \in Events, d \in BOOLEAN : StartPatched(t, e, d)
    \/ \E t \in Tasks, r \in LookupResults : Lookup(t, r)
    \/ \E t \in Tasks, r \in FetchResults : Fetch(t, r)
    \/ \E t \in Tasks, p \in SendPlans : Send(t, p)
    \/ \E t \in Tasks : Sleep(t)
SpecPatched == Init /\ [][NextPatched]_vars

\* The handler against a remote side with a call budget of 0 .. MaxBudget.
MaxBudget == 2
InitBudget ==
    /\ client = NoClient
    /\ pc = [t \in Tasks |-> "idle"]
    /\ ev = [t \in Tasks |-> NoEvent]
    /\ chan = [t \in Tasks |-> NoneVal]
    /\ via = [t \in Tasks |-> NoClient]
    /\ lookres = [t \in Tasks |-> Pending]
    /\ fetchres = [t \in Tasks |-> NoResult]
    /\ plan = [t \in Tasks |-> NoPlan]
    /\ dupres = [t \in Tasks |-> Pending]
    /\ lookarg = [t \in Tasks |-> Pending]
    /\ budget \in 0 .. MaxBudget
    /\ dupchecks = [t \in Tasks |-> 0]
    /\ lookups = [t \in Tasks |-> 0]
    /\ fetches = [t \in Tasks |-> 0]
    /\ attempts = [t \in Tasks |-> 0]
    /\ sent = [t \in Tasks |-> <<>>]
    /\ slept = [t \in Tasks |-> <<>>]
    /\ log = [t \in Tasks |-> <<>>]
NextBudget ==
    \/ \E c \in Clients : SetDiscordClient(c)
    \/ \E t \in Tasks, e \in Events : Start(t, e)
    \/ \E t \in Tasks, r \in LookupResults : Lookup(t, r)
    \/ \E t \in Tasks, r \in FetchResults : Fetch(t, r)
    \/ \E t \in Tasks : SendBudget(t)
    \/ \E t \in Tasks : Sleep(t)
SpecBudget == InitBudget /\ [][NextBudget]_vars

\* ================================================================= claims
Started(t) == pc[t] # "idle"
Returned(t) == pc[t] = "done"
Accepted(t) == Started(t) /\ dupchecks[t] > 0
Key(e) == <<e.guild_id, e.user.id>>
Logged(t, level, text) ==
    \E i \in 1 .. Len(log[t]) : log[t][i].level = level /\ log[t][i].text = text
LoggedFor(t, entry) == \E i \in 1 .. Len(log[t]) : log[t][i] = entry
CountLevel(t, level) ==
    Cardinality({ i \in 1 .. Len(log[t]) : log[t][i].level = level })
\* The Outcome of the spec's process(), read off the handler's last report.
Outcome(t) ==
    IF ~Returned(t) \/ log[t] = <<>> THEN "none"
    ELSE LET last == log[t][Len(log[t])].text IN
         CASE last = "Welcome message sent for user" -> "Dispatched"
           [] last = "Duplicate member join event" -> "Duplicate"
           [] last = "Invalid event data received" -> "Invalid"
           [] last = "No welcome channel configured for guild" -> "NoTarget"
           [] OTHER -> "Failed"
FirstAnswer(t) == plan[t][1]
SendAnswered(t) == plan[t] # NoPlan

\* C1: of the deliveries of events with the same (guild_id, user.id), at most
\* one reaches channel.send; the others are duplicates and send nothing.
C1_AtMostOnce ==
    \A t, u \in Tasks :
        (t # u /\ Accepted(t) /\ Accepted(u) /\ Key(ev[t]) = Key(ev[u]))
            => ~(attempts[t] > 0 /\ attempts[u] > 0)

\* C2: handle_guild_member_add returns normally for every raw event value and
\* every failure of its collaborators; no exception leaves it.
C2_NeverRaises == \A t \in Tasks : pc[t] # "raised"

\* C3: when channel.send fails transiently twice and would succeed the third
\* time, one invocation makes three attempts and ends Dispatched with the
\* message delivered.
C3_TransientRetried ==
    \A t \in Tasks :
        (Returned(t) /\ SendAnswered(t) /\ Len(plan[t]) = 3
            /\ plan[t][1].class = "transient" /\ plan[t][2].class = "transient"
            /\ plan[t][3].class = "ok")
            => (attempts[t] = 3 /\ Len(sent[t]) = 1 /\ Outcome(t) = "Dispatched")

\* C4: a send rejected once with a rate-limit signal carrying retry_after, and
\* accepted afterwards, is attempted again after the wait within the same
\* invocation, which ends with the message delivered.
C4_RateLimitRetried ==
    \A t \in Tasks :
        (Returned(t) /\ SendAnswered(t) /\ Len(plan[t]) = 2
            /\ plan[t][1].class = "rate_limit" /\ plan[t][1].has_retry_after
            /\ plan[t][2].class = "ok")
            => (attempts[t] = 2 /\ Len(sent[t]) = 1)

\* C5: whenever the send fails with a rate-limit error carrying retry_after = d,
\* whatever its text, the invocation has logged a warning and called
\* asyncio.sleep(d) by the time it returns.
C5_RateLimitSleeps ==
    \A t \in Tasks :
        (Returned(t) /\ SendAnswered(t) /\ FirstAnswer(t).class = "rate_limit"
            /\ FirstAnswer(t).has_retry_after)
            => (slept[t] = <<FirstAnswer(t).retry_after>>
                /\ CountLevel(t, "warning") > 0)

\* C6: a permission failure of channel.send, whatever its text, is terminal:
\* no further attempt in the invocation, and a 'Permission denied' error
\* reported for the channel.
C6_PermissionTerminal ==
    \A t \in Tasks :
        (Returned(t) /\ SendAnswered(t) /\ FirstAnswer(t).class = "permission")
            => (attempts[t] = 1
                /\ LoggedFor(t, Log("error", "Permission denied to send message in channel",
                                    NoArg, NoArg, chan[t])))

LacksField(e) ==
    /\ e.kind = "dict"
    /\ \/ e.guild_id = Absent
       \/ e.user.kind = "absent"
       \/ e.user.kind = "dict" /\ (e.user.id = Absent \/ e.user.username = Absent)
C8_InvalidNoEffect ==
    \A t \in Tasks :
        (Started(t) /\ LacksField(ev[t]))
            => (/\ pc[t] = "done"
                /\ log[t] = <<Log("error", "Invalid event data received",
                                  NoArg, NoArg, NoArg)>>
                /\ dupchecks[t] = 0 /\ lookups[t] = 0 /\ fetches[t] = 0
                /\ attempts[t] = 0 /\ sent[t] = <<>> /\ slept[t] = <<>>)
C8_Witness ==
    \E t \in Tasks :
        /\ Returned(t) /\ ev[t].kind = "dict" /\ ev[t].guild_id = "G1"
        /\ ev[t].user.kind = "dict" /\ ev[t].user.id = "U1"
        /\ ev[t].user.username = Absent

\* C9: _validate_event_data accepts an event exactly when it has a guild_id
\* and a user object with a non-empty id and a non-empty username, and it
\* answers accept or reject for every input.
WellFormed(e) ==
    /\ e.kind = "dict" /\ e.guild_id # Absent /\ e.user.kind = "dict"
    /\ e.user.id \notin {Absent, ""} /\ e.user.username \notin {Absent, ""}
C9_ValidatorExact ==
    \A t \in Tasks :
        Started(t) =>
            /\ ValidateEventData(ev[t]) \in {"accept", "reject"}
            /\ (ValidateEventData(ev[t]) = "accept") <=> WellFormed(ev[t])
            /\ Accepted(t) <=> WellFormed(ev[t])

\* C10: a valid event whose guild has no welcome channel is a no-op that can
\* be redelivered: no fetch, no send, one 'No welcome channel configured'
\* warning for the guild and no error; a redelivery of the same event is not a
\* duplicate, and the configuration is looked up again.
C10_NoTargetRetrySafe ==
    \A t \in Tasks :
        lookres[t] = NoneVal
            => (/\ pc[t] = "done"
                /\ fetches[t] = 0 /\ attempts[t] = 0 /\ sent[t] = <<>>
                /\ log[t] = <<Log("warning", "No welcome channel configured for guild",
                                  ev[t].guild_id, NoArg, NoArg)>>
                /\ Outcome(t) = "NoTarget"
                /\ \A u \in Tasks :
                      (u # t /\ Started(u) /\ ev[u] = ev[t])
                          => (/\ dupchecks[u] = 1 /\ lookups[u] = 1
                              /\ Outcome(u) # "Duplicate"
                              /\ (lookres[u] = NoneVal => Outcome(u) = "NoTarget")))
C10_Witness ==
    \E t, u \in Tasks :
        /\ t # u /\ ev[t] = ev[u] /\ WellFormed(ev[t])
        /\ lookres[t] = NoneVal /\ lookres[u] = NoneVal
        /\ Returned(t) /\ Returned(u)

\* C11: whenever the duplicate check reports the event as already processed,
\* the handler stops: no config lookup, no channel fetch, no send.
C11_DuplicateNoOp ==
    \A t \in Tasks :
        dupres[t] = "duplicate"
            => (/\ pc[t] = "done"
                /\ lookups[t] = 0 /\ lookres[t] = Pending
                /\ fetches[t] = 0 /\ attempts[t] = 0
                /\ sent[t] = <<>> /\ slept[t] = <<>>)
C11_Witness ==
    \E t \in Tasks :
        /\ dupres[t] = "duplicate" /\ Returned(t) /\ WellFormed(ev[t])
        /\ Outcome(t) = "Duplicate"
        /\ client # NoClient

\* C12: for a valid, non-duplicate event with a configured channel and a send
\* that succeeds, the invocation looks the channel up once, with the event's
\* guild_id, and sends one message, to the channel the lookup returned,
\* mentioning the event's user id.
C12_SuccessPath ==
    \A t \in Tasks :
        (SendAnswered(t) /\ FirstAnswer(t).class = "ok")
            => (/\ lookups[t] = 1 /\ lookarg[t] = ev[t].guild_id
                /\ fetches[t] = 1 /\ attempts[t] = 1
                /\ sent[t] = <<[channel |-> lookres[t], mention |-> ev[t].user.id]>>)
C12_Witness ==
    \E t \in Tasks :
        /\ Returned(t) /\ SendAnswered(t) /\ FirstAnswer(t).class = "ok"
        /\ ev[t].user.id = "U1" /\ lookres[t] = "555" /\ Len(sent[t]) = 1

\* C13: in every invocation the stages run in the order validate, duplicate
\* check, config lookup, channel fetch, send; a stage runs only if every
\* earlier one ran and passed, and none runs twice.
C13_StageOrder ==
    \A t \in Tasks :
        /\ dupchecks[t] <= 1 /\ lookups[t] <= 1 /\ fetches[t] <= 1 /\ attempts[t] <= 1
        /\ dupchecks[t] > 0 => (Started(t) /\ ValidateEventData(ev[t]) = "accept")
        /\ (dupres[t] # Pending) <=> (dupchecks[t] = 1)
        /\ lookups[t] > 0 => (dupchecks[t] = 1 /\ dupres[t] = "new")
        /\ lookres[t] # Pending => lookups[t] = 1
        /\ fetches[t] > 0 => (lookups[t] = 1 /\ lookres[t] \in ChannelIds)
        /\ fetchres[t] # NoResult => fetches[t] = 1
        /\ attempts[t] > 0 => (fetches[t] = 1 /\ fetchres[t] = Ok)
        /\ SendAnswered(t) => attempts[t] = 1
C13_Witness ==
    \E t, u \in Tasks :
        /\ Returned(t) /\ dupres[t] = "new" /\ lookres[t] = "555"
        /\ fetchres[t] = Ok /\ attempts[t] = 1 /\ Len(sent[t]) = 1
        /\ Returned(u) /\ dupres[u] = "duplicate"

\* C14: every invocation that fails (invalid event, config lookup error,
\* channel fetch error, permission failure, any other send error) calls
\* logger.error exactly once.
FailedInvocation(t) ==
    /\ Returned(t)
    /\ \/ ValidateEventData(ev[t]) = "reject"
       \/ lookres[t] = Raise
       \/ fetchres[t] = NotFoundError
       \/ SendAnswered(t) /\ FirstAnswer(t).class \in {"permission", "transient", "other"}
C14_OneErrorPerFailure ==
    \A t \in Tasks : FailedInvocation(t) => CountLevel(t, "error") = 1

\* C15: a failure of the config lookup, the channel fetch or the send is
\* reported by the handler with the guild_id and the user id of the event (and
\* the stage that failed); for a config failure the report is 'Failed to
\* process member join' with the guild_id.
StageFailed(t) ==
    /\ Returned(t)
    /\ \/ lookres[t] = Raise
       \/ fetchres[t] = NotFoundError
       \/ SendAnswered(t) /\ FirstAnswer(t).class # "ok"
C15_FailureContext ==
    \A t \in Tasks :
        StageFailed(t) =>
            \E i \in 1 .. Len(log[t]) :
                /\ log[t][i].level = "error"
                /\ log[t][i].text = "Failed to process member join"
                /\ log[t][i].guild = ev[t].guild_id
                /\ log[t][i].user = ev[t].user.id

\* C16: against a channel with call budget N the first N sends are issued
\* without a wait, and a send issued once the budget is used up is preceded by
\* a wait: the invocation has slept before the remote side sees the call.
C16_WaitBeforeCall ==
    [][\A t \in Tasks :
          (pc[t] = "send" /\ pc'[t] # "send")
              => IF budget > 0
                 THEN slept[t] = <<>> /\ plan'[t] = <<Ok>>
                 ELSE slept[t] # <<>>]_vars

\* C17: while one invocation waits in asyncio.sleep after a rate-limit
\* rejection, every other invocation can take its next step, whichever stage it
\* is at, so it can run to completion before the wait ends; the wait holds
\* nothing the others need.
C17_WaitSuspendsOnlyItself ==
    \A t, u \in Tasks :
        (t # u /\ pc[t] = "sleep")
            => (/\ pc[u] = "idle" => ENABLED (\E e \in Events : Start(u, e))
                /\ pc[u] = "lookup" => ENABLED (\E r \in LookupResults : Lookup(u, r))
                /\ pc[u] = "fetch" => ENABLED (\E r \in FetchResults : Fetch(u, r))
                /\ pc[u] = "send" => ENABLED (\E p \in SendPlans : Send(u, p))
                /\ pc[u] = "sleep" => ENABLED Sleep(u)
                /\ ENABLED (\E c \in Clients : SetDiscordClient(c)))
C17_Witness ==
    \E t, u \in Tasks :
        /\ t # u /\ pc[t] = "sleep"
        /\ Returned(u) /\ Key(ev[u]) # Key(ev[t]) /\ Len(sent[u]) = 1

\* C18: 'Welcome message sent for user ...' is logged only by an invocation in
\* which channel.send was called and completed without error.
C18_SuccessOnlyIfSent ==
    \A t \in Tasks :
        Logged(t, "info", "Welcome message sent for user")
            => (attempts[t] >= 1 /\ SendAnswered(t) /\ FirstAnswer(t).class = "ok"
                /\ Len(sent[t]) = 1)

\* C19: an error of channel.send whose text signals a permission failure
\* ('permission' or '403') is never followed by a wait; the handler sleeps only
\* for rate-limit signals that are not permission failures.
PermissionText(x) == ContainsLower(x.msg, "permission") \/ Contains(x.msg, "403")
RateLimitText(x) == ContainsLower(x.msg, "rate limit") \/ Contains(x.msg, "429")
C19_PermissionNoWait ==
    \A t \in Tasks :
        /\ (SendAnswered(t) /\ FirstAnswer(t).class # "ok" /\ PermissionText(FirstAnswer(t)))
              => slept[t] = <<>>
        /\ slept[t] # <<>>
              => (SendAnswered(t) /\ RateLimitText(FirstAnswer(t))
                  /\ ~PermissionText(FirstAnswer(t)))

\* C20: while set_discord_client has not been called, an invocation, whatever
\* its event and the channel configured, sends nothing, reports an error, does
\* not report success and returns normally; and every fetch goes through a
\* client that was set.
C20_NoClientNoSend ==
    \A t \in Tasks :
        /\ (client = NoClient /\ Started(t))
              => (/\ pc[t] # "raised"
                  /\ fetches[t] = 0 /\ attempts[t] = 0 /\ sent[t] = <<>>
                  /\ ~Logged(t, "info", "Welcome message sent for user")
                  /\ lookres[t] \in ChannelIds
                        => (Returned(t) /\ CountLevel(t, "error") > 0))
        /\ fetches[t] > 0 => via[t] \in Clients

====
